---- MODULE Spec2Model ----
(***************************************************************************)
(* Presence ledger of the player-status-tracker admin panel: one user's     *)
(* stored record (localStorage game_admin_users), the logged-in copy        *)
(* (game_admin_current_user), the React state of the AuthProvider           *)
(* (authState.user) and of Layout (currentStatus), and the handlers that    *)
(* move time between them.                                                  *)
(*                                                                          *)
(* Timestamps are integers (milliseconds scaled down); an ISO string and    *)
(* the number it parses to are the same value, since toISOString and        *)
(* new Date(iso).getTime() are exact inverses at millisecond precision.     *)
(* A month key "YYYY-MM" is the index of the month since the epoch.         *)
(* The activity list is append-only and no handler reads it; it is kept as  *)
(* its length, and the record a handler appends is the argument it passes   *)
(* to addActivity. op names the last handler call: the handler, the status  *)
(* it was asked for, whether the handler found that status to be the        *)
(* current one, whether its timestamp was before the status-start timestamp *)
(* it read, and whether it closed a period begun in an earlier month.       *)
(*                                                                          *)
(* Spec runs the session handlers; SpecAdmin runs logins, logouts and page  *)
(* loads together with the administrator's storage calls; SpecMerge applies *)
(* one merge function to two copies of a record (mergeA, mergeB, result in  *)
(* mergeOut); SpecChain nests a merge over three copies (mergeC the third); *)
(* SpecNorm calls checkMonthlyNorm once (normIn the arguments, normOut the  *)
(* result). SpecSave runs the AuthContext session on a store that refuses   *)
(* writes; SpecSession runs the AuthContext build alone; SpecAutoSync calls *)
(* performAutoSync once; SpecHeartbeat lets RealtimeSync's timer tick;      *)
(* SpecRateLimit calls authenticateUser while time passes; SpecUnblock      *)
(* calls useUnblockCode and blockUser.                                      *)
(***************************************************************************)
EXTENDS Integers, Sequences, FiniteSets, TLC

VARIABLES users, currentUser, authUser, currentStatus,
          activityLen, op, provider,
          mergeA, mergeB, mergeC, mergeOut,
          normIn, normOut,
          failing, localStorage, clock, loginAttempts, attemptLog

vars == <<users, currentUser, authUser, currentStatus,
          activityLen, op, provider,
          mergeA, mergeB, mergeC, mergeOut,
          normIn, normOut,
          failing, localStorage, clock, loginAttempts, attemptLog>>

\* the browser around the ledger: failing is the number of coming writes of
\* game_admin_users that localStorage.setItem will refuse (quota exceeded);
\* localStorage holds the keys other than game_admin_users and
\* game_admin_current_user; clock is Date.now() where a specification lets
\* time pass by itself; loginAttempts is SecurityManager's map of login
\* attempts, and attemptLog lists, for each identifier, the times at which
\* checkRateLimit allowed an attempt since the identifier was last cleared
envVars == <<failing, localStorage, clock, loginAttempts, attemptLog>>

\* getItem returns null
Absent == [none |-> TRUE]

OtherKeys ==
  {"users", "users_backup", "users_temp", "last_activity_update",
   "game_admin_settings"}

\* the state of the browser when every write succeeds and no other key is set
EnvInit ==
  /\ failing = 0
  /\ localStorage = [k \in OtherKeys |-> Absent]
  /\ clock = 0
  /\ loginAttempts = << >>
  /\ attemptLog = << >>

\* the arguments and results of the merges and of the norm check
mergeArgs == <<mergeA, mergeB, mergeC, mergeOut, normIn, normOut>>

\* what the session handlers leave alone
mergeVars == <<mergeArgs, envVars>>

\* ------------------------------------------------------------------ bounds
MaxTime == 2
MonthLen == 2
MaxActivity == 3
\* offset of the local calendar from UTC, in time units
TzOffset == 1

Times == 0 .. MaxTime
Status == {"online", "afk", "offline"}
Null == [none |-> TRUE]
Uid == "u1"

\* ------------------------------------------------------- JavaScript values
\* { ...a, ...b }
Spread(a, b) == b @@ a

\* (obj[field] || 0)
Num(obj, field) == IF field \in DOMAIN obj THEN obj[field] ELSE 0

\* (obj[field] || {})
Map(obj, field) == IF field \in DOMAIN obj THEN obj[field] ELSE << >>

\* if (user.lastStatusTimestamp)
HasTs(user) == "lastStatusTimestamp" \in DOMAIN user

\* `${now.getFullYear()}-${String(now.getMonth() + 1).padStart(2, '0')}`: local calendar
MonthKeyLocal(now) == (now + TzOffset) \div MonthLen

\* new Date().toISOString().slice(0, 7): UTC calendar
MonthKeyUTC(now) == now \div MonthLen

TotalField(s) ==
  CASE s = "online" -> "totalOnlineTime"
    [] s = "afk" -> "totalAfkTime"
    [] s = "offline" -> "totalOfflineTime"

MonthlyField(s) ==
  CASE s = "online" -> "monthlyOnlineTime"
    [] s = "afk" -> "monthlyAfkTime"
    [] s = "offline" -> "monthlyOfflineTime"

RECURSIVE SumMap(_)
SumMap(m) ==
  IF DOMAIN m = {} THEN 0
  ELSE LET k == CHOOSE x \in DOMAIN m : TRUE
       IN m[k] + SumMap([x \in DOMAIN m \ {k} |-> m[x]])

\* ------------------------------------------------------------ user records
\* CreateUserForm: a new user is offline with zero totals and empty monthly maps
NewUser(t) ==
  [status |-> "offline", lastActivity |-> t, lastStatusTimestamp |-> t,
   isBlocked |-> FALSE,
   totalOnlineTime |-> 0, totalAfkTime |-> 0, totalOfflineTime |-> 0,
   monthlyOnlineTime |-> << >>, monthlyAfkTime |-> << >>, monthlyOfflineTime |-> << >>]

\* a record written before lastStatusTimestamp was introduced (the field is optional)
LegacyUser(t) ==
  [status |-> "offline", lastActivity |-> t, isBlocked |-> FALSE,
   totalOnlineTime |-> 0, totalAfkTime |-> 0, totalOfflineTime |-> 0,
   monthlyOnlineTime |-> << >>, monthlyAfkTime |-> << >>, monthlyOfflineTime |-> << >>]

\* AddTime with the month's entry left as it was
AddTimeTotalOnly(user, s, monthKey, duration) ==
  (TotalField(s) :> (Num(user, TotalField(s)) + duration)) @@
  (MonthlyField(s) :> Map(user, MonthlyField(s)))

\* one case of the switch over the previous status: the total and the month's entry grow
AddTime(user, s, monthKey, duration) ==
  (TotalField(s) :> (Num(user, TotalField(s)) + duration)) @@
  (MonthlyField(s) :>
     ((monthKey :> (Num(Map(user, MonthlyField(s)), monthKey) + duration))
        @@ Map(user, MonthlyField(s))))

\* duration = now.getTime() - new Date(user.lastStatusTimestamp).getTime(), 0 when unset
DurationSince(user, now) ==
  IF HasTs(user) THEN now - user.lastStatusTimestamp ELSE 0

\* storage.updateUser: users[index] = { ...users[index], ...updates }
updateUser(us, userId, updates) ==
  IF userId \in DOMAIN us
    THEN [us EXCEPT ![userId] = Spread(us[userId], updates)]
    ELSE us

\* storage.addActivity: push one record
addActivity(record) == activityLen' = activityLen + 1

\* what op records of a call that read the timestamp of ledger user at now
Called(name, status, same, user, now) ==
  LET timed == ~same /\ user # Null /\ "lastStatusTimestamp" \in DOMAIN user
  IN [name |-> name, status |-> status, same |-> same,
      skewed |-> timed /\ now < user.lastStatusTimestamp,
      crossed |-> /\ timed
                  /\ now > user.lastStatusTimestamp
                  /\ MonthKeyLocal(user.lastStatusTimestamp) # MonthKeyLocal(now)]

\* ------------------------------------------------- AuthContext (local build)
\* updateStatus without the duration > 0 test
UpdateStatusUpdatesUnguarded(user, status, now) ==
  Spread([status |-> status, lastActivity |-> now, lastStatusTimestamp |-> now],
         AddTime(user, user.status, MonthKeyLocal(now), DurationSince(user, now)))

\* updateStatus with the month taken from the start of the status period
UpdateStatusUpdatesStartMonth(user, status, now) ==
  LET updates == [status |-> status, lastActivity |-> now, lastStatusTimestamp |-> now]
      duration == DurationSince(user, now)
  IN IF duration > 0
       THEN Spread(updates, AddTime(user, user.status,
                                    MonthKeyLocal(user.lastStatusTimestamp), duration))
       ELSE updates

\* AuthContext.updateStatus: the Partial<User> written to the store
UpdateStatusUpdates(user, status, now) ==
  LET updates == [status |-> status, lastActivity |-> now, lastStatusTimestamp |-> now]
      duration == DurationSince(user, now)
  IN IF duration > 0
       THEN Spread(updates, AddTime(user, user.status, MonthKeyLocal(now), duration))
       ELSE updates

\* AuthContext.logout: the Partial<User> written to the store; the switch has no
\* 'offline' case
LogoutUpdates(user, now) ==
  LET updates == [status |-> "offline", lastActivity |-> now, lastStatusTimestamp |-> now]
      duration == DurationSince(user, now)
  IN IF duration > 0 /\ user.status \in {"online", "afk"}
       THEN Spread(updates, AddTime(user, user.status, MonthKeyLocal(now), duration))
       ELSE updates

\* if (user.isBlocked)
IsBlocked(user) == "isBlocked" \in DOMAIN user /\ user.isBlocked

\* AuthContext.login, with storage.authenticateUser answering from localStorage
Login(now) ==
  /\ provider = "local"
  /\ authUser = Null
  /\ ~IsBlocked(users[Uid])
  /\ LET user == users[Uid]
         session == [status |-> "online", lastActivity |-> now, lastStatusTimestamp |-> now]
         updatedUser == Spread(user, session)
     IN /\ users' = updateUser(users, Uid, session)
        /\ currentUser' = updatedUser
        /\ addActivity([status |-> "online", timestamp |-> now,
                        previousStatus |-> user.status])
        /\ authUser' = updatedUser
        /\ currentStatus' = updatedUser.status
  /\ op' = Called("login", "online", FALSE, Null, now)
  /\ UNCHANGED <<provider, mergeVars>>

Logout(now) ==
  /\ provider = "local"
  /\ IF authUser # Null
       THEN /\ users' = updateUser(users, Uid, LogoutUpdates(authUser, now))
            /\ addActivity([status |-> "offline", timestamp |-> now,
                        previousStatus |-> authUser.status,
                            duration |-> DurationSince(authUser, now)])
       ELSE UNCHANGED <<users, activityLen>>
  /\ currentUser' = Null
  /\ authUser' = Null
  /\ op' = Called("logout", "offline",
                 authUser # Null /\ authUser.status = "offline", authUser, now)
  /\ UNCHANGED <<currentStatus, provider, mergeVars>>

\* AuthContext.updateStatus: the activity record it appends
UpdateStatusRecord(user, status, now) ==
  [status |-> status, timestamp |-> now, previousStatus |-> user.status,
   duration |-> DurationSince(user, now)]

\* the guard with every status let through
StatusDiffersAlways(user, status) == user # Null

\* AuthContext.updateStatus: if (authState.user && authState.user.status !== status)
StatusDiffers(user, status) == user # Null /\ user.status # status

UpdateStatus(status, now) ==
  /\ provider = "local"
  /\ IF StatusDiffers(authUser, status)
       THEN LET updates == UpdateStatusUpdates(authUser, status, now)
                updatedUser == Spread(authUser, updates)
            IN /\ users' = updateUser(users, Uid, updates)
               /\ currentUser' = updatedUser
               /\ addActivity(UpdateStatusRecord(authUser, status, now))
               /\ authUser' = updatedUser
               /\ currentStatus' = updatedUser.status
       ELSE UNCHANGED <<users, currentUser, authUser, currentStatus,
                        activityLen>>
  /\ op' = Called("updateStatus", status,
                 authUser # Null /\ authUser.status = status, authUser, now)
  /\ UNCHANGED <<provider, mergeVars>>

\* AuthProvider mount effect: storage.initialize(), then authState from the
\* stored current user
\* (the stored records carry every field the migration pass adds, so that pass
\* changes nothing)
initialize(us, now) ==
  IF \E id \in DOMAIN us : us[id].status # "offline"
    THEN [id \in DOMAIN us |->
            Spread(us[id], [status |-> "offline", lastStatusTimestamp |-> now])]
    ELSE us

PageLoad(now) ==
  /\ provider = "local"
  /\ users' = initialize(users, now)
  /\ authUser' = currentUser
  /\ currentStatus' = IF currentUser # Null THEN currentUser.status ELSE "offline"
  /\ op' = Called("initialize", "offline", FALSE, Null, now)
  /\ UNCHANGED <<currentUser, activityLen, provider, mergeVars>>

\* storage.forceAllUsersOffline: every record is set offline with a fresh
\* status-start timestamp
forceAllUsersOffline(us, now) ==
  [id \in DOMAIN us |->
     Spread(us[id], [status |-> "offline", lastStatusTimestamp |-> now])]

ForceAllUsersOffline(now) ==
  /\ users' = forceAllUsersOffline(users, now)
  /\ op' = Called("forceAllUsersOffline", "offline", FALSE, Null, now)
  /\ UNCHANGED <<currentUser, authUser, currentStatus, activityLen, provider,
                 mergeVars>>

\* storage.blockUser: the record is marked blocked and set offline
blockUser(us, userId, now) ==
  IF userId \in DOMAIN us
    THEN [us EXCEPT ![userId] =
            Spread(us[userId],
                   [isBlocked |-> TRUE, blockedAt |-> now, status |-> "offline"])]
    ELSE us

BlockUser(now) ==
  /\ users' = blockUser(users, Uid, now)
  /\ op' = Called("blockUser", "offline", FALSE, Null, now)
  /\ UNCHANGED <<currentUser, authUser, currentStatus, activityLen, provider,
                 mergeVars>>

\* storage.unblockUser: only a blocked record is changed
unblockUser(us, userId) ==
  IF userId \in DOMAIN us /\ IsBlocked(us[userId])
    THEN [us EXCEPT ![userId] =
            [f \in DOMAIN us[userId] \ {"blockedAt"} |->
               IF f = "isBlocked" THEN FALSE ELSE us[userId][f]]]
    ELSE us

UnblockUser ==
  /\ users' = unblockUser(users, Uid)
  /\ op' = Called("unblockUser", users[Uid].status, FALSE, Null, 0)
  /\ UNCHANGED <<currentUser, authUser, currentStatus, activityLen, provider,
                 mergeVars>>

\* ------------------------------------------------------------ StatusSelector
\* StatusSelector.handleStatusChange: the record put back into the users list
HandleStatusChangeUser(user, newStatus, now) ==
  LET timeInPreviousStatus == DurationSince(user, now)
      counted == IF timeInPreviousStatus > 0
                   THEN Spread(user, AddTime(user, user.status, MonthKeyLocal(now),
                                             timeInPreviousStatus))
                   ELSE user
  IN Spread(counted, [status |-> newStatus, lastActivity |-> now,
                      lastStatusTimestamp |-> now])

\* The selector is rendered by Layout for the logged-in user, with Layout's
\* currentStatus state as its prop. Its synthetic 'storage' event for
\* game_admin_current_user reaches the listeners of the sync build only.
HandleStatusChange(newStatus, now) ==
  /\ authUser # Null
  /\ IF newStatus # currentStatus
       THEN LET user == users[Uid]
                updatedUser == HandleStatusChangeUser(user, newStatus, now)
            IN /\ users' = [users EXCEPT ![Uid] = updatedUser]
               /\ currentUser' = IF currentUser # Null THEN updatedUser ELSE currentUser
               /\ addActivity([status |-> newStatus, timestamp |-> now,
                        previousStatus |-> user.status,
                               duration |-> DurationSince(user, now)])
               /\ authUser' = IF provider = "sync" THEN updatedUser ELSE authUser
               /\ currentStatus' = newStatus
       ELSE UNCHANGED <<users, currentUser, authUser, currentStatus,
                        activityLen>>
  /\ op' = Called("handleStatusChange", newStatus, newStatus = currentStatus,
                 users[Uid], now)
  /\ UNCHANGED <<provider, mergeVars>>

\* -------------------------------------------------------------- RealtimeSync
\* RealtimeSync.updateUserStatus: the record put back into the users list
RealtimeUpdatedUser(user, newStatus, now) ==
  LET timeInPreviousStatus == DurationSince(user, now)
      counted == IF timeInPreviousStatus > 0
                   THEN Spread(user, AddTime(user, user.status, MonthKeyUTC(now),
                                             timeInPreviousStatus))
                   ELSE user
  IN Spread(counted, [status |-> newStatus, lastActivity |-> now,
                      lastStatusTimestamp |-> now])

\* the fields RealtimeSync.updateUserStatus passes on to storage.updateUser
RealtimeFields ==
  {"status", "lastActivity", "lastStatusTimestamp",
   "totalOnlineTime", "totalAfkTime", "totalOfflineTime",
   "monthlyOnlineTime", "monthlyAfkTime", "monthlyOfflineTime"}

\* RealtimeSync.updateUserStatus: the activity record it appends
RealtimeRecord(user, newStatus, now) ==
  [status |-> newStatus, timestamp |-> now, duration |-> DurationSince(user, now)]

RealtimeUpdateUserStatus(newStatus, now) ==
  /\ LET user == users[Uid]
         updatedUser == RealtimeUpdatedUser(user, newStatus, now)
         saved == [users EXCEPT ![Uid] = updatedUser]
     IN /\ users' = updateUser(saved, Uid,
                      [f \in RealtimeFields \cap DOMAIN updatedUser |-> updatedUser[f]])
        /\ currentUser' = IF currentUser # Null THEN updatedUser ELSE currentUser
        /\ addActivity(RealtimeRecord(user, newStatus, now))
  /\ op' = Called("updateUserStatus", newStatus, FALSE, users[Uid], now)
  /\ UNCHANGED <<authUser, currentStatus, provider, mergeVars>>

\* ------------------------------------------- SyncManager and the sync build
\* SyncManager.updateUserStatusSync; an omitted duration behaves as 0
updateUserStatusSync(us, userId, status, duration, now) ==
  IF userId \notin DOMAIN us THEN us
  ELSE LET user == us[userId]
           updates == [status |-> status, lastActivity |-> now,
                       lastStatusTimestamp |-> now]
           counted == IF duration > 0
                        THEN Spread(updates, AddTime(user, user.status,
                                                     MonthKeyLocal(now), duration))
                        ELSE updates
       IN [us EXCEPT ![userId] = Spread(user, counted)]

\* SyncManager.mergeUserSessions
mergeUserSessions(existingUser, newSessionData, now) ==
  Spread(Spread(existingUser, newSessionData),
         [lastActivity |-> now, lastStatusTimestamp |-> now,
          totalOnlineTime |-> Num(existingUser, "totalOnlineTime"),
          totalAfkTime |-> Num(existingUser, "totalAfkTime"),
          totalOfflineTime |-> Num(existingUser, "totalOfflineTime"),
          monthlyOnlineTime |-> Map(existingUser, "monthlyOnlineTime"),
          monthlyAfkTime |-> Map(existingUser, "monthlyAfkTime"),
          monthlyOfflineTime |-> Map(existingUser, "monthlyOfflineTime")])

\* login of the AuthProvider that goes through SyncManager
SyncLogin(now) ==
  /\ provider = "sync"
  /\ authUser = Null
  /\ ~IsBlocked(users[Uid])
  /\ LET userToLogin == users[Uid]
         sessionData == [status |-> "online", lastActivity |-> now,
                         lastStatusTimestamp |-> now]
         updatedUser == mergeUserSessions(userToLogin, sessionData, now)
     IN /\ users' = updateUserStatusSync(users, Uid, "online", 0, now)
        /\ currentUser' = updatedUser
        /\ addActivity([status |-> "online", timestamp |-> now,
                        previousStatus |-> userToLogin.status])
        /\ authUser' = updatedUser
        /\ currentStatus' = updatedUser.status
  /\ op' = Called("syncLogin", "online", FALSE, Null, now)
  /\ UNCHANGED <<provider, mergeVars>>

SyncLogout(now) ==
  /\ provider = "sync"
  /\ IF authUser # Null
       THEN /\ users' = updateUserStatusSync(users, Uid, "offline",
                                             DurationSince(authUser, now), now)
            /\ addActivity([status |-> "offline", timestamp |-> now,
                        previousStatus |-> authUser.status,
                            duration |-> DurationSince(authUser, now)])
       ELSE UNCHANGED <<users, activityLen>>
  /\ currentUser' = Null
  /\ authUser' = Null
  /\ op' = Called("syncLogout", "offline",
                 authUser # Null /\ authUser.status = "offline", authUser, now)
  /\ UNCHANGED <<currentStatus, provider, mergeVars>>

SyncUpdateStatus(status, now) ==
  /\ provider = "sync"
  /\ IF authUser # Null /\ authUser.status # status
       THEN LET saved == updateUserStatusSync(users, Uid, status,
                                              DurationSince(authUser, now), now)
                updatedUser == saved[Uid]
            IN /\ users' = saved
               /\ currentUser' = updatedUser
               /\ addActivity([status |-> status, timestamp |-> now,
                        previousStatus |-> authUser.status,
                               duration |-> DurationSince(authUser, now)])
               /\ authUser' = updatedUser
               /\ currentStatus' = updatedUser.status
       ELSE UNCHANGED <<users, currentUser, authUser, currentStatus,
                        activityLen>>
  /\ op' = Called("syncUpdateStatus", status,
                 authUser # Null /\ authUser.status = status, authUser, now)
  /\ UNCHANGED <<provider, mergeVars>>

\* mount effect of the sync build: initialize, then the fresh stored record
SyncPageLoad(now) ==
  /\ provider = "sync"
  /\ users' = initialize(users, now)
  /\ IF currentUser # Null
       THEN /\ authUser' = users'[Uid]
            /\ currentUser' = users'[Uid]
            /\ currentStatus' = users'[Uid].status
       ELSE /\ authUser' = Null
            /\ currentUser' = currentUser
            /\ currentStatus' = "offline"
  /\ op' = Called("syncInitialize", "offline", FALSE, Null, now)
  /\ UNCHANGED <<activityLen, provider, mergeVars>>

\* a 'users' sync event (a write of game_admin_users seen by the sync build's
\* listener) replaces authState.user by the stored record
SyncUsersEvent ==
  /\ provider = "sync"
  /\ authUser # Null
  /\ authUser # users[Uid]
  /\ authUser' = users[Uid]
  /\ currentStatus' = users[Uid].status
  /\ op' = Called("usersEvent", users[Uid].status, FALSE, Null, 0)
  /\ UNCHANGED <<users, currentUser, activityLen, provider, mergeVars>>

\* ------------------------------------------------------------------- merges
\* the difference in place of the larger value
MaxDifference(a, b) == a - b

Max(a, b) == IF a >= b THEN a ELSE b

\* updates.f || currentUser.f, as the one-field record it contributes
OrField(first, second, field) ==
  IF field \in DOMAIN first THEN (field :> first[field])
  ELSE IF field \in DOMAIN second THEN (field :> second[field])
  ELSE << >>

\* storage.syncUserStatistics: the merged record
syncUserStatistics(current, updates) ==
  OrField(updates, current, "lastActivity") @@
  OrField(updates, current, "lastStatusTimestamp") @@
  OrField(updates, current, "status") @@
  [totalOnlineTime |-> Max(Num(current, "totalOnlineTime"), Num(updates, "totalOnlineTime")),
   totalAfkTime |-> Max(Num(current, "totalAfkTime"), Num(updates, "totalAfkTime")),
   totalOfflineTime |-> Max(Num(current, "totalOfflineTime"),
                            Num(updates, "totalOfflineTime")),
   monthlyOnlineTime |-> Spread(Map(current, "monthlyOnlineTime"),
                                Map(updates, "monthlyOnlineTime")),
   monthlyAfkTime |-> Spread(Map(current, "monthlyAfkTime"),
                             Map(updates, "monthlyAfkTime")),
   monthlyOfflineTime |-> Spread(Map(current, "monthlyOfflineTime"),
                                 Map(updates, "monthlyOfflineTime"))] @@
  Spread(current, updates)

\* storage.mergeMonthlyStats
mergeMonthlyStats(stats1, stats2) ==
  [month \in DOMAIN stats1 \cup DOMAIN stats2 |->
     IF month \in DOMAIN stats2
       THEN Max(Num(stats1, month), stats2[month])
       ELSE stats1[month]]

\* Math.max of the two lastActivity strings: NaN, which is no timestamp (every
\* timestamp is >= 0) and is saved as null
NaN == -1

\* storage.syncMultiDeviceLogin: the merged record of a user present on both sides
syncMultiDeviceLoginUser(existingUser, localUser) ==
  Spread(existingUser,
         [totalOnlineTime |-> Max(Num(localUser, "totalOnlineTime"),
                                  Num(existingUser, "totalOnlineTime")),
          lastActivity |-> NaN,
          monthlyOnlineTime |-> mergeMonthlyStats(Map(existingUser, "monthlyOnlineTime"),
                                                  Map(localUser, "monthlyOnlineTime"))])

\* RealtimeSync.syncWithDatabase: the merged record of a user present on both sides
syncWithDatabaseUser(dbUser, localUser) ==
  Spread(dbUser,
         [totalOnlineTime |-> Max(Num(localUser, "totalOnlineTime"),
                                  Num(dbUser, "totalOnlineTime")),
          totalAfkTime |-> Max(Num(localUser, "totalAfkTime"), Num(dbUser, "totalAfkTime")),
          totalOfflineTime |-> Max(Num(localUser, "totalOfflineTime"),
                                   Num(dbUser, "totalOfflineTime")),
          monthlyOnlineTime |-> IF "monthlyOnlineTime" \in DOMAIN localUser
                                  THEN localUser.monthlyOnlineTime
                                  ELSE Map(dbUser, "monthlyOnlineTime"),
          monthlyAfkTime |-> IF "monthlyAfkTime" \in DOMAIN localUser
                               THEN localUser.monthlyAfkTime
                               ELSE Map(dbUser, "monthlyAfkTime"),
          monthlyOfflineTime |-> IF "monthlyOfflineTime" \in DOMAIN localUser
                                   THEN localUser.monthlyOfflineTime
                                   ELSE Map(dbUser, "monthlyOfflineTime")])

\* ------------------------------------------------------------ specification
NoLedger == [status |-> "none"]

Init ==
  /\ users \in {[id \in {Uid} |-> NewUser(0)], [id \in {Uid} |-> LegacyUser(0)]}
  /\ currentUser = Null
  /\ authUser = Null
  /\ currentStatus = "offline"
  /\ activityLen = 0
  /\ op = Called("init", "offline", FALSE, Null, 0)
  /\ provider \in {"local", "sync"}
  /\ mergeA = NoLedger /\ mergeB = NoLedger /\ mergeC = NoLedger
  /\ mergeOut = NoLedger
  /\ normIn = NoLedger /\ normOut = NoLedger
  /\ EnvInit

CanAppend == activityLen < MaxActivity

Next ==
  \/ \E now \in Times : CanAppend /\ Login(now)
  \/ \E now \in Times : CanAppend /\ Logout(now)
  \/ \E status \in Status, now \in Times : CanAppend /\ UpdateStatus(status, now)
  \/ \E now \in Times : PageLoad(now)
  \/ \E status \in Status, now \in Times : CanAppend /\ HandleStatusChange(status, now)
  \/ \E status \in Status, now \in Times : CanAppend /\ RealtimeUpdateUserStatus(status, now)
  \/ \E now \in Times : CanAppend /\ SyncLogin(now)
  \/ \E now \in Times : CanAppend /\ SyncLogout(now)
  \/ \E status \in Status, now \in Times : CanAppend /\ SyncUpdateStatus(status, now)
  \/ \E now \in Times : SyncPageLoad(now)
  \/ SyncUsersEvent

Spec == Init /\ [][Next]_vars

\* ------------------------- specification of the sessions and the admin calls
\* Logins, logouts and page loads of either build, together with the storage
\* calls an administrator makes on the same store.
NextAdmin ==
  \/ \E now \in Times : CanAppend /\ Login(now)
  \/ \E now \in Times : CanAppend /\ Logout(now)
  \/ \E now \in Times : PageLoad(now)
  \/ \E now \in Times : CanAppend /\ SyncLogin(now)
  \/ \E now \in Times : CanAppend /\ SyncLogout(now)
  \/ \E now \in Times : SyncPageLoad(now)
  \/ \E now \in Times : ForceAllUsersOffline(now)
  \/ \E now \in Times : BlockUser(now)
  \/ UnblockUser

SpecAdmin == Init /\ [][NextAdmin]_vars

\* ------------------------------------------- specification of the merges
\* Two copies of one user's record, each built by crediting at most
\* MaxMergeSum units over the months 0 .. MaxMergeKey and each in some status
\* since some time, are merged once.
MaxMergeSum == 2
MaxMergeKey == 1
MergeKeys == 0 .. MaxMergeKey
Cells == Status \X MergeKeys

\* the credits made by at most sum transitions that each credited one unit to
\* one of cells: how many units every status has in every month
CreditsOver(cells, sum) ==
  {[c \in Cells |-> Cardinality({i \in DOMAIN units : units[i] = c})] :
     units \in UNION {[1 .. n -> cells] : n \in 0 .. sum}}

\* the monthly map of status s: the months with a positive credit
MonthlyOf(f, s) ==
  [k \in {m \in MergeKeys : f[<<s, m>>] > 0} |-> f[<<s, k>>]]

\* the record of a user created at t whose credits are f
LedgerOf(f, t) ==
  Spread(NewUser(t),
         [totalOnlineTime |-> SumMap(MonthlyOf(f, "online")),
          totalAfkTime |-> SumMap(MonthlyOf(f, "afk")),
          totalOfflineTime |-> SumMap(MonthlyOf(f, "offline")),
          monthlyOnlineTime |-> MonthlyOf(f, "online"),
          monthlyAfkTime |-> MonthlyOf(f, "afk"),
          monthlyOfflineTime |-> MonthlyOf(f, "offline")])

Credits == CreditsOver(Cells, MaxMergeSum)

\* the copies of the user's record that are merged
Ledgers ==
  {Spread(LedgerOf(f, t), [status |-> s]) : f \in Credits, t \in Times, s \in Status}

InitMerge ==
  /\ users = [id \in {Uid} |-> NewUser(0)]
  /\ currentUser = Null
  /\ authUser = Null
  /\ currentStatus = "offline"
  /\ activityLen = 0
  /\ op = Called("init", "offline", FALSE, Null, 0)
  /\ provider = "local"
  /\ mergeA \in Ledgers
  /\ mergeB \in Ledgers
  /\ mergeC = NoLedger
  /\ mergeOut = NoLedger
  /\ normIn = NoLedger /\ normOut = NoLedger
  /\ EnvInit

MergeDone(name) ==
  /\ op' = Called(name, "offline", FALSE, Null, 0)
  /\ UNCHANGED <<users, currentUser, authUser, currentStatus, activityLen,
                 provider, mergeA, mergeB, mergeC, normIn, normOut, envVars>>

\* storage.syncUserStatistics(id, updates) with mergeA stored and mergeB as updates
SyncUserStatistics ==
  /\ mergeOut = NoLedger
  /\ mergeOut' = syncUserStatistics(mergeA, mergeB)
  /\ MergeDone("syncUserStatistics")

\* storage.syncMultiDeviceLogin with mergeA stored and mergeB among the local users
SyncMultiDeviceLogin ==
  /\ mergeOut = NoLedger
  /\ mergeOut' = syncMultiDeviceLoginUser(mergeA, mergeB)
  /\ MergeDone("syncMultiDeviceLogin")

\* RealtimeSync.syncWithDatabase with mergeA from the database and mergeB local
SyncWithDatabase ==
  /\ mergeOut = NoLedger
  /\ mergeOut' = syncWithDatabaseUser(mergeA, mergeB)
  /\ MergeDone("syncWithDatabase")

NextMerge ==
  \/ SyncUserStatistics
  \/ SyncMultiDeviceLogin
  \/ SyncWithDatabase

SpecMerge == InitMerge /\ [][NextMerge]_vars

\* ---------------------------------- specification of the merges of three
\* Three copies of one user's record, made at different times and left in
\* different statuses, each with at most MaxChainSum units credited over the
\* months 0 .. MaxMergeKey, are merged by two calls of one merge: the first
\* two and then the third (left), or the first with the merge of the other
\* two (right).
MaxChainSum == 1

ChainCredits == CreditsOver(Cells, MaxChainSum)

\* the credited records, before the copies diverge in status and timestamps
ChainLedgers == {LedgerOf(f, 0) : f \in ChainCredits}

\* the copy of a record that went to status s at t
CopyAt(ledger, s, t) ==
  Spread(ledger, [status |-> s, lastActivity |-> t, lastStatusTimestamp |-> t])

InitChain ==
  /\ users = [id \in {Uid} |-> NewUser(0)]
  /\ currentUser = Null
  /\ authUser = Null
  /\ currentStatus = "offline"
  /\ activityLen = 0
  /\ op = Called("init", "offline", FALSE, Null, 0)
  /\ provider = "local"
  /\ \E a \in ChainLedgers, b \in ChainLedgers, c \in ChainLedgers :
       /\ mergeA = a
       /\ mergeB = CopyAt(b, "online", 1)
       /\ mergeC = CopyAt(c, "afk", 2)
  /\ mergeOut = NoLedger
  /\ normIn = NoLedger /\ normOut = NoLedger
  /\ EnvInit

ChainSyncUserStatistics ==
  /\ mergeOut = NoLedger
  /\ mergeOut' =
       [left |-> syncUserStatistics(syncUserStatistics(mergeA, mergeB), mergeC),
        right |-> syncUserStatistics(mergeA, syncUserStatistics(mergeB, mergeC))]
  /\ MergeDone("syncUserStatistics")

ChainSyncMultiDeviceLogin ==
  /\ mergeOut = NoLedger
  /\ mergeOut' =
       [left |-> syncMultiDeviceLoginUser(syncMultiDeviceLoginUser(mergeA, mergeB),
                                         mergeC),
        right |-> syncMultiDeviceLoginUser(mergeA,
                                          syncMultiDeviceLoginUser(mergeB, mergeC))]
  /\ MergeDone("syncMultiDeviceLogin")

ChainSyncWithDatabase ==
  /\ mergeOut = NoLedger
  /\ mergeOut' =
       [left |-> syncWithDatabaseUser(syncWithDatabaseUser(mergeA, mergeB), mergeC),
        right |-> syncWithDatabaseUser(mergeA, syncWithDatabaseUser(mergeB, mergeC))]
  /\ MergeDone("syncWithDatabase")

NextChain ==
  \/ ChainSyncUserStatistics
  \/ ChainSyncMultiDeviceLogin
  \/ ChainSyncWithDatabase

SpecChain == InitChain /\ [][NextChain]_vars

\* -------------------------------------------- specification of the norm check
\* storage.checkMonthlyNorm is called once for a user with up to MaxMinutes
\* minutes online in month 0, an individual norm of 0 .. MaxNorm hours or none,
\* a system minimum of 0 .. MaxNorm hours or none, and month 0 or 1.
MaxMinutes == 120
MaxNorm == 2

\* 1000 * 60 * 60 and 1000 * 60
HourMs == 3600000
MinuteMs == 60000

\* settings.minimumMonthlyNorm || 160
DefaultNorm == 160

\* Math.round(n / d) for n >= 0, d > 0
Round(n, d) == (2 * n + d) \div (2 * d)

\* storage.checkMonthlyNorm without the Math.min(percentage, 100) of its result
checkMonthlyNormUncapped(user, month, settings) ==
  LET minimumNorm == IF Num(settings, "minimumMonthlyNorm") # 0
                       THEN settings.minimumMonthlyNorm ELSE DefaultNorm
      monthlyHours == Num(Map(user, "monthlyOnlineTime"), month)
      currentHours == Round(monthlyHours, HourMs)
      requiredHours == IF Num(user, "monthlyNorm") # 0
                         THEN user.monthlyNorm ELSE minimumNorm
  IN [meetsNorm |-> currentHours >= requiredHours,
      currentHours |-> currentHours,
      requiredHours |-> requiredHours,
      percentage |-> [num |-> currentHours * 100, den |-> requiredHours]]

\* storage.checkMonthlyNorm(user, month); percentage is the quotient num / den
checkMonthlyNorm(user, month, settings) ==
  LET minimumNorm == IF Num(settings, "minimumMonthlyNorm") # 0
                       THEN settings.minimumMonthlyNorm ELSE DefaultNorm
      monthlyHours == Num(Map(user, "monthlyOnlineTime"), month)
      currentHours == Round(monthlyHours, HourMs)
      requiredHours == IF Num(user, "monthlyNorm") # 0
                         THEN user.monthlyNorm ELSE minimumNorm
  IN [meetsNorm |-> currentHours >= requiredHours,
      currentHours |-> currentHours,
      requiredHours |-> requiredHours,
      percentage |-> IF currentHours * 100 <= 100 * requiredHours
                       THEN [num |-> currentHours * 100, den |-> requiredHours]
                       ELSE [num |-> 100, den |-> 1]]

\* obj with field set to value, or without it when value is -1 (not set)
WithField(obj, field, value) ==
  IF value = -1 THEN obj ELSE Spread(obj, (field :> value))

NormInputs ==
  {[user |-> WithField([monthlyOnlineTime |-> (0 :> minutes * MinuteMs)],
                       "monthlyNorm", norm),
    month |-> month,
    settings |-> WithField(<< >>, "minimumMonthlyNorm", minimum)] :
     minutes \in 0 .. MaxMinutes, norm \in -1 .. MaxNorm,
     minimum \in -1 .. MaxNorm, month \in 0 .. 1}

InitNorm ==
  /\ users = [id \in {Uid} |-> NewUser(0)]
  /\ currentUser = Null
  /\ authUser = Null
  /\ currentStatus = "offline"
  /\ activityLen = 0
  /\ op = Called("init", "offline", FALSE, Null, 0)
  /\ provider = "local"
  /\ mergeA = NoLedger /\ mergeB = NoLedger /\ mergeC = NoLedger
  /\ mergeOut = NoLedger
  /\ normIn \in NormInputs
  /\ normOut = NoLedger
  /\ EnvInit

CheckMonthlyNorm ==
  /\ normOut = NoLedger
  /\ normOut' = checkMonthlyNorm(normIn.user, normIn.month, normIn.settings)
  /\ op' = Called("checkMonthlyNorm", "offline", FALSE, Null, 0)
  /\ UNCHANGED <<users, currentUser, authUser, currentStatus, activityLen,
                 provider, mergeA, mergeB, mergeC, mergeOut, normIn,
                 envVars>>

NextNorm == CheckMonthlyNorm

SpecNorm == InitNorm /\ [][NextNorm]_vars

\* ------------------------------- specification of the failing store writes
\* The AuthContext session with a store that refuses up to MaxFailures writes
\* in a row: localStorage.setItem throws, storage.saveUsers logs and rethrows.
MaxFailures == 3

\* storage.saveUsers(newUsers) on the stored list us when n coming writes are
\* refused: setItem throws before the list is replaced
saveUsers(us, newUsers, n) == IF n > 0 THEN us ELSE newUsers

\* the store starts refusing writes
QuotaExceeded(n) ==
  /\ failing = 0
  /\ failing' = n
  /\ op' = Called("quotaExceeded", "offline", FALSE, Null, 0)
  /\ UNCHANGED <<users, currentUser, authUser, currentStatus, activityLen,
                 provider, mergeArgs, localStorage, clock, loginAttempts,
                 attemptLog>>

\* AuthContext.updateStatus when storage.updateUser throws: the exception
\* leaves updateStatus before setCurrentUser, addActivity and setAuthState,
\* and the onClick handler that called it has no catch
UpdateStatusSaveFails(status, now) ==
  /\ provider = "local"
  /\ StatusDiffers(authUser, status)
  /\ failing > 0
  /\ users' = saveUsers(users,
                        updateUser(users, Uid,
                                   UpdateStatusUpdates(authUser, status, now)),
                        failing)
  /\ failing' = failing - 1
  /\ op' = Called("updateStatusThrew", status, FALSE, authUser, now)
  /\ UNCHANGED <<currentUser, authUser, currentStatus, activityLen, provider,
                 mergeArgs, localStorage, clock, loginAttempts, attemptLog>>

InitSave == Init /\ provider = "local"

NextSave ==
  \/ \E now \in Times : CanAppend /\ failing = 0 /\ Login(now)
  \/ \E status \in Status, now \in Times :
       CanAppend /\ failing = 0 /\ UpdateStatus(status, now)
  \/ \E n \in 1 .. MaxFailures : QuotaExceeded(n)
  \/ \E status \in Status, now \in Times : UpdateStatusSaveFails(status, now)

SpecSave == InitSave /\ [][NextSave]_vars

\* ------------------------------------------ specification of the auto-sync
\* storage.performAutoSync is called once on a store that holds one user's
\* record, with users_backup and users_temp each absent, an empty list or a
\* list holding another copy of that user's record.
\* storage.syncMultiDeviceLogin: the list syncedUsers
syncMultiDeviceLogin(existingUsers, localUsers) ==
  [id \in DOMAIN localUsers \cup DOMAIN existingUsers |->
     IF id \in DOMAIN localUsers /\ id \in DOMAIN existingUsers
       THEN syncMultiDeviceLoginUser(existingUsers[id], localUsers[id])
       ELSE IF id \in DOMAIN localUsers THEN localUsers[id]
            ELSE existingUsers[id]]

\* the user lists another device can have left under users_backup or users_temp
LeftLists ==
  {Absent, << >>}
    \cup {[id \in {Uid} |-> CopyAt(b, "online", 1)] : b \in ChainLedgers}

InitAutoSync ==
  /\ users \in {[id \in {Uid} |-> CopyAt(a, "offline", 0)] : a \in ChainLedgers}
  /\ currentUser = Null
  /\ authUser = Null
  /\ currentStatus = "offline"
  /\ activityLen = 0
  /\ op = Called("init", "offline", FALSE, Null, 0)
  /\ provider = "local"
  /\ mergeA = NoLedger /\ mergeB = NoLedger /\ mergeC = NoLedger
  /\ mergeOut = NoLedger
  /\ normIn = NoLedger /\ normOut = NoLedger
  /\ failing = 0
  /\ clock = 0
  /\ loginAttempts = << >>
  /\ attemptLog = << >>
  /\ \E backup \in LeftLists, temp \in LeftLists :
       localStorage = [k \in OtherKeys |->
                         CASE k = "users_backup" -> backup
                           [] k = "users_temp" -> temp
                           [] OTHER -> Absent]

\* storage.performAutoSync; mergeOut holds what it returns, and the list
\* syncMultiDeviceLogin returned to it
PerformAutoSync ==
  /\ mergeOut = NoLedger
  /\ LET backupUsers == localStorage["users_backup"]
         tempUsers == localStorage["users_temp"]
         localUsers == IF backupUsers # Absent THEN backupUsers ELSE tempUsers
     IN IF (backupUsers # Absent \/ tempUsers # Absent) /\ DOMAIN localUsers # {}
          THEN LET syncedUsers == syncMultiDeviceLogin(users, localUsers)
               IN /\ localStorage' = [localStorage EXCEPT
                                        !["users"] = syncedUsers,
                                        !["users_backup"] = Absent,
                                        !["users_temp"] = Absent]
                  /\ mergeOut' = [synced |-> TRUE, syncedUsers |-> syncedUsers]
          ELSE /\ mergeOut' = [synced |-> FALSE]
               /\ UNCHANGED localStorage
  /\ op' = Called("performAutoSync", "offline", FALSE, Null, 0)
  /\ UNCHANGED <<users, currentUser, authUser, currentStatus, activityLen,
                 provider, mergeA, mergeB, mergeC, normIn, normOut, failing,
                 clock, loginAttempts, attemptLog>>

NextAutoSync == PerformAutoSync

SpecAutoSync == InitAutoSync /\ [][NextAutoSync]_vars

\* ------------------------------------------- specification of the heartbeat
\* RealtimeSync is started for a user who is logged in, online or afk since
\* time 0. Its interval timer calls performSync every SyncIntervalMs
\* milliseconds, up to MaxTicks times, and RealtimeSync.updateUserStatus can be
\* called between two ticks. The database answers getUsersAsync with the
\* stored list, so that syncWithDatabase finds no change to write.
MaxTicks == 17

\* setInterval(() => this.performSync(), 2000)
SyncIntervalMs == 2000

\* if (timeDiff < 30000) return
ActivityThresholdMs == 30000

\* RealtimeSync.updateCurrentUserActivity at now: the new stored list, stored
\* current user and localStorage
updateCurrentUserActivity(us, current, ls, now) ==
  LET lastUpdate == ls["last_activity_update"]
      lastTime == IF lastUpdate # Absent THEN lastUpdate ELSE now
      timeDiff == now - lastTime
      same == [users |-> us, currentUser |-> current, localStorage |-> ls]
  IN IF current = Null \/ current.status = "offline" THEN same
     ELSE IF timeDiff < ActivityThresholdMs THEN same
     ELSE LET updatedUser ==
                Spread(Spread(current,
                              AddTime(current, current.status, MonthKeyUTC(now),
                                      timeDiff)),
                       [lastActivity |-> now, lastStatusTimestamp |-> now])
              fields == {"totalOnlineTime", "totalAfkTime", "monthlyOnlineTime",
                         "monthlyAfkTime", "lastActivity", "lastStatusTimestamp"}
          IN [users |-> updateUser(us, Uid,
                                   [f \in fields \cap DOMAIN updatedUser |->
                                      updatedUser[f]]),
              currentUser |-> updatedUser,
              localStorage |-> [ls EXCEPT !["last_activity_update"] = now]]

InitHeartbeat ==
  /\ \E s \in {"online", "afk"} :
       /\ users = [id \in {Uid} |-> Spread(NewUser(0), [status |-> s])]
       /\ currentUser = users[Uid]
       /\ authUser = users[Uid]
       /\ currentStatus = s
  /\ activityLen = 0
  /\ op = Called("init", "offline", FALSE, Null, 0)
  /\ provider = "sync"
  /\ mergeA = NoLedger /\ mergeB = NoLedger /\ mergeC = NoLedger
  /\ mergeOut = NoLedger
  /\ normIn = NoLedger /\ normOut = NoLedger
  /\ EnvInit

\* one firing of the interval timer: RealtimeSync.performSync
PerformSync ==
  /\ clock < MaxTicks * SyncIntervalMs
  /\ clock' = clock + SyncIntervalMs
  /\ LET after == updateCurrentUserActivity(users, currentUser, localStorage,
                                            clock')
     IN /\ users' = after.users
        /\ currentUser' = after.currentUser
        /\ localStorage' = after.localStorage
  /\ op' = Called("performSync", "offline", FALSE, Null, clock')
  /\ UNCHANGED <<authUser, currentStatus, activityLen, provider, mergeArgs,
                 failing, loginAttempts, attemptLog>>

NextHeartbeat ==
  \/ PerformSync
  \/ \E status \in Status : CanAppend /\ RealtimeUpdateUserStatus(status, clock)

\* the interval timer keeps firing
SpecHeartbeat ==
  InitHeartbeat /\ [][NextHeartbeat]_vars /\ WF_vars(PerformSync)

\* --------------------------------------- specification of the login attempts
\* storage.authenticateUser is called with the logins a user of the account
\* KnownLogin can type: strings of up to MaxLoginLen characters that
\* sanitizeInput turns into KnownLogin, with a right or a wrong password, while
\* time passes in steps of a little more than half the rate limiter's window.
MaxLoginLen == 2
MaxSteps == 4
MaxAllowed == 6

\* 15 * 60 * 1000
RateWindowMs == 900000

\* if (attempt.count >= 5)
MaxLoginAttempts == 5

Chars == {"u", " "}
KnownLogin == <<"u">>

RECURSIVE trim(_)
\* String.prototype.trim
trim(str) ==
  IF str = << >> THEN str
  ELSE IF Head(str) = " " THEN trim(Tail(str))
  ELSE IF str[Len(str)] = " " THEN trim(SubSeq(str, 1, Len(str) - 1))
  ELSE str

\* the characters replace(/[<>]/g, '') keeps
Kept(c) == c \notin {"<", ">"}

\* SecurityManager.sanitizeInput on strings over Chars
sanitizeInput(input) == trim(SelectSeq(input, Kept))

Identifiers ==
  {l \in UNION {[1 .. n -> Chars] : n \in 1 .. MaxLoginLen} :
     sanitizeInput(l) = KnownLogin}

\* Map.get
Get(map, key) == IF key \in DOMAIN map THEN map[key] ELSE Absent

\* Map.set
Set(map, key, value) == (key :> value) @@ map

\* Map.delete
Delete(map, key) == [k \in DOMAIN map \ {key} |-> map[k]]

\* SecurityManager.checkRateLimit: whether the attempt is allowed, and the map
\* after the call
checkRateLimit(attempts, identifier, now) ==
  LET attempt == Get(attempts, identifier)
      first == [count |-> 1, lastAttempt |-> now]
  IN IF attempt = Absent
       THEN [allowed |-> TRUE, loginAttempts |-> Set(attempts, identifier, first)]
     ELSE IF now - attempt.lastAttempt > RateWindowMs
       THEN [allowed |-> TRUE, loginAttempts |-> Set(attempts, identifier, first)]
     ELSE IF attempt.count >= MaxLoginAttempts
       THEN [allowed |-> FALSE, loginAttempts |-> attempts]
     ELSE [allowed |-> TRUE,
           loginAttempts |-> Set(attempts, identifier,
                                 [count |-> attempt.count + 1,
                                  lastAttempt |-> now])]

\* SecurityManager.clearRateLimit
clearRateLimit(attempts, identifier) == Delete(attempts, identifier)

\* the allowed attempts in all the logs
Logged == SumMap([id \in DOMAIN attemptLog |-> Len(attemptLog[id])])

\* storage.authenticateUser(login, password) at clock; valid says whether the
\* password is the account's. op records the login it was called with and
\* whether it returned the user or threw.
AuthenticateUser(login, valid) ==
  /\ Logged < MaxAllowed
  /\ LET rateLimit == checkRateLimit(loginAttempts, login, clock)
         sanitized == sanitizeInput(login)
         found == sanitized = KnownLogin /\ valid
         logged == IF rateLimit.allowed
                     THEN Set(attemptLog, login,
                              Append(IF login \in DOMAIN attemptLog
                                       THEN attemptLog[login] ELSE << >>,
                                     clock))
                     ELSE attemptLog
     IN /\ loginAttempts' =
             IF rateLimit.allowed /\ found
               THEN clearRateLimit(rateLimit.loginAttempts, sanitized)
               ELSE rateLimit.loginAttempts
        /\ attemptLog' =
             IF rateLimit.allowed /\ found
               THEN Delete(logged, sanitized)
               ELSE logged
        /\ op' = Spread(Called("authenticateUser", "offline", FALSE, Null, clock),
                        [login |-> login,
                         returned |-> rateLimit.allowed /\ found])
  /\ UNCHANGED <<users, currentUser, authUser, currentStatus, activityLen,
                 provider, mergeArgs, failing, localStorage, clock>>

\* half a window of the rate limiter, and a millisecond, pass
TimePasses ==
  /\ clock < MaxSteps * (RateWindowMs \div 2 + 1)
  /\ clock' = clock + RateWindowMs \div 2 + 1
  /\ op' = Called("timePasses", "offline", FALSE, Null, clock')
  /\ UNCHANGED <<users, currentUser, authUser, currentStatus, activityLen,
                 provider, mergeArgs, failing, localStorage, loginAttempts,
                 attemptLog>>

NextRateLimit ==
  \/ \E login \in Identifiers, valid \in BOOLEAN : AuthenticateUser(login, valid)
  \/ TimePasses

SpecRateLimit == InitSave /\ [][NextRateLimit]_vars

\* ---------------------------------------- specification of the unblock codes
\* An administrator has saved up to MaxCodes unblock codes in the settings and
\* blocks the user from time to time; storage.useUnblockCode is called with a
\* saved or an unknown code, for the user or for an id no user has.
MaxCodes == 3

Codes == {"CODE1", "CODE2"}
UnknownCode == "CODE0"
UnknownUser == "u0"

\* storage.getSettings: the default settings hold no code
getSettings(ls) ==
  IF ls["game_admin_settings"] # Absent
    THEN ls["game_admin_settings"]
    ELSE [unblockCodes |-> << >>]

\* the elements of a list
Range(seq) == {seq[i] : i \in DOMAIN seq}

\* unblockCodes.filter(c => c !== code)
Without(seq, code) == SelectSeq(seq, LAMBDA c : c # code)

InitUnblock ==
  /\ users = [id \in {Uid} |-> NewUser(0)]
  /\ currentUser = Null
  /\ authUser = Null
  /\ currentStatus = "offline"
  /\ activityLen = 0
  /\ op = Called("init", "offline", FALSE, Null, 0)
  /\ provider = "local"
  /\ mergeA = NoLedger /\ mergeB = NoLedger /\ mergeC = NoLedger
  /\ mergeOut = NoLedger
  /\ normIn = NoLedger /\ normOut = NoLedger
  /\ failing = 0
  /\ clock = 0
  /\ loginAttempts = << >>
  /\ attemptLog = << >>
  /\ \E codes \in UNION {[1 .. n -> Codes] : n \in 0 .. MaxCodes} :
       localStorage = [k \in OtherKeys |->
                         IF k = "game_admin_settings"
                           THEN [unblockCodes |-> codes]
                           ELSE Absent]

\* storage.useUnblockCode(code, userId); op records the code and what the call
\* returned
UseUnblockCode(code, userId) ==
  /\ LET settings == getSettings(localStorage)
         unblockCodes == IF "unblockCodes" \in DOMAIN settings
                           THEN settings.unblockCodes ELSE << >>
         updatedSettings ==
           Spread(settings, [unblockCodes |-> Without(unblockCodes, code)])
     IN IF code \in Range(unblockCodes)
          THEN /\ localStorage' =
                    [localStorage EXCEPT !["game_admin_settings"] = updatedSettings]
               /\ users' = unblockUser(users, userId)
               /\ op' = Spread(Called("useUnblockCode", "offline", FALSE, Null, 0),
                               [code |-> code,
                                returned |-> /\ userId \in DOMAIN users
                                             /\ IsBlocked(users[userId])])
          ELSE /\ UNCHANGED <<localStorage, users>>
               /\ op' = Spread(Called("useUnblockCode", "offline", FALSE, Null, 0),
                               [code |-> code, returned |-> FALSE])
  /\ UNCHANGED <<currentUser, authUser, currentStatus, activityLen, provider,
                 mergeArgs, failing, clock, loginAttempts, attemptLog>>

NextUnblock ==
  \/ \E code \in Codes \cup {UnknownCode}, userId \in {Uid, UnknownUser} :
       UseUnblockCode(code, userId)
  \/ \E now \in Times : BlockUser(now)

SpecUnblock == InitUnblock /\ [][NextUnblock]_vars

\* ------------------------------------ specification of one AuthContext session
\* The AuthContext build alone: logins, updateStatus calls, the status
\* selector and page loads (of this tab or another) on one store.
NextSession ==
  \/ \E now \in Times : CanAppend /\ Login(now)
  \/ \E status \in Status, now \in Times : CanAppend /\ UpdateStatus(status, now)
  \/ \E status \in Status, now \in Times : CanAppend /\ HandleStatusChange(status, now)
  \/ \E now \in Times : PageLoad(now)

SpecSession == InitSave /\ [][NextSession]_vars

\* ------------------------------------------------------ reading the ledgers
TotalOf(user, s) == Num(user, TotalField(s))
MonthlyAt(user, s, key) == Num(Map(user, MonthlyField(s)), key)
MonthKeys == 0 .. ((MaxTime + TzOffset) \div MonthLen)

\* max(0, now - statusStartedAt), 0 when the timestamp is unset
Elapsed(user, now) ==
  IF HasTs(user) /\ now > user.lastStatusTimestamp
    THEN now - user.lastStatusTimestamp
    ELSE 0

SameDurations(u, v) ==
  \A s \in Status :
    /\ TotalOf(u, s) = TotalOf(v, s)
    /\ \A k \in MonthKeys : MonthlyAt(u, s, k) = MonthlyAt(v, s, k)

AccountingIdentity(user) ==
  \A s \in Status : TotalOf(user, s) = SumMap(Map(user, MonthlyField(s)))

NonNegative(user) ==
  \A s \in Status :
    /\ TotalOf(user, s) >= 0
    /\ LET monthly == Map(user, MonthlyField(s))
       IN \A k \in DOMAIN monthly : monthly[k] >= 0

Skewed(user, now) == HasTs(user) /\ now < user.lastStatusTimestamp

\* L2 is L after a transition to newStatus at now that folds d into the status
\* L had, under month key
TransitionEffect(L, L2, newStatus, now, d, key) ==
  /\ TotalOf(L2, L.status) = TotalOf(L, L.status) + d
  /\ \A k \in MonthKeys :
       MonthlyAt(L2, L.status, k) =
         MonthlyAt(L, L.status, k) + (IF k = key THEN d ELSE 0)
  /\ \A x \in Status \ {L.status} :
       /\ TotalOf(L2, x) = TotalOf(L, x)
       /\ \A k \in MonthKeys : MonthlyAt(L2, x, k) = MonthlyAt(L, x, k)
  /\ L2.status = newStatus
  /\ HasTs(L2)
  /\ L2.lastStatusTimestamp = now

\* the step is the named handler called with (s, now)
StepUpdateStatus(s, now) ==
  op'.name = "updateStatus" /\ op'.status = s /\ UpdateStatus(s, now)
StepLogout(now) == op'.name = "logout" /\ Logout(now)
StepHandleStatusChange(s, now) ==
  op'.name = "handleStatusChange" /\ op'.status = s /\ HandleStatusChange(s, now)
StepRealtimeUpdateUserStatus(s, now) ==
  op'.name = "updateUserStatus" /\ op'.status = s /\ RealtimeUpdateUserStatus(s, now)
\* the step calls SyncManager.updateUserStatusSync for status s at now
StepUpdateUserStatusSync(s, now) ==
  \/ op'.name = "syncLogin" /\ s = "online" /\ SyncLogin(now)
  \/ op'.name = "syncLogout" /\ s = "offline" /\ authUser # Null /\ SyncLogout(now)
  \/ /\ op'.name = "syncUpdateStatus"
     /\ op'.status = s
     /\ authUser # Null
     /\ authUser.status # s
     /\ SyncUpdateStatus(s, now)

\* the step was taken by one of the named handlers
By(names) == op'.name \in names
SyncCallers == {"syncLogin", "syncLogout", "syncUpdateStatus"}

\* ------------------------------------------------------------------- claims
\* C1: when AuthContext.updateStatus / logout (working from authState.user) and
\* StatusSelector.handleStatusChange (working from the stored record) act on the
\* same stored user, each step that closes the interval since the stored
\* status-start timestamp credits that interval once, to the status the store
\* held during it, and credits nothing to the other statuses.
C1_EachIntervalCreditedOnce ==
  [][\A s \in Status, now \in Times :
       ((\/ StepUpdateStatus(s, now)
         \/ StepLogout(now)
         \/ StepHandleStatusChange(s, now)) /\ activityLen' > activityLen)
       => LET old == users[Uid]
              new == users'[Uid]
          IN /\ \A x \in Status \ {old.status} : TotalOf(new, x) = TotalOf(old, x)
             /\ \/ TotalOf(new, old.status) = TotalOf(old, old.status) + Elapsed(old, now)
                \/ /\ new.status = old.status
                   /\ TotalOf(new, old.status) = TotalOf(old, old.status)]_vars

\* C2: the stored lifetime totals of the user never decrease, whichever session
\* writes.
C2_StoredTotalsNeverDecrease ==
  [][\A s \in Status : TotalOf(users'[Uid], s) >= TotalOf(users[Uid], s)]_vars

\* C3: starting from zero durations, after any sequence of transitions the
\* lifetime total of every status equals the sum of its monthly totals, in the
\* stored record and in the copies the sessions hold.
C3_AccountingIdentity ==
  /\ AccountingIdentity(users[Uid])
  /\ authUser # Null => AccountingIdentity(authUser)
  /\ currentUser # Null => AccountingIdentity(currentUser)

\* a logout that credited time, after an earlier transition credited another status
C3_Witness ==
  /\ op.name \in {"logout", "syncLogout"}
  /\ ~op.same
  /\ \E s \in Status, x \in Status :
       s # x /\ TotalOf(users[Uid], s) > 0 /\ TotalOf(users[Uid], x) > 0

\* C4: when both copies of a user's record satisfy lifetime[s] = sum of
\* monthly[s][*] for every status s, so does the record that
\* storage.syncUserStatistics, storage.syncMultiDeviceLogin or
\* RealtimeSync.syncWithDatabase makes of them.
C4_MergeKeepsIdentity ==
  (/\ mergeOut # NoLedger
   /\ AccountingIdentity(mergeA)
   /\ AccountingIdentity(mergeB)) => AccountingIdentity(mergeOut)

\* C5: every lifetime and monthly duration is >= 0 after every step, and a
\* transition whose timestamp is earlier than the status-start timestamp of the
\* ledger it reads contributes nothing to any duration while the status change
\* itself still goes through.
C5_NonNegative ==
  [][/\ \A user \in {users'[Uid], authUser', currentUser'} \ {Null} :
          NonNegative(user)
     /\ \A s \in {op'.status}, now \in Times :
          /\ (By({"updateStatus"}) /\ StatusDiffers(authUser, s)
                /\ Skewed(authUser, now) /\ StepUpdateStatus(s, now))
               => /\ SameDurations(authUser, authUser')
                  /\ SameDurations(users[Uid], users'[Uid])
                  /\ authUser'.status = s
                  /\ users'[Uid].status = s
          /\ (By({"updateUserStatus"}) /\ Skewed(users[Uid], now)
                /\ StepRealtimeUpdateUserStatus(s, now))
               => /\ SameDurations(users[Uid], users'[Uid])
                  /\ users'[Uid].status = s
          /\ (By({"handleStatusChange"}) /\ s # currentStatus
                /\ Skewed(users[Uid], now) /\ StepHandleStatusChange(s, now))
               => /\ SameDurations(users[Uid], users'[Uid])
                  /\ users'[Uid].status = s
          /\ (By(SyncCallers) /\ authUser # Null /\ Skewed(authUser, now)
                /\ StepUpdateUserStatusSync(s, now))
               => /\ SameDurations(users[Uid], users'[Uid])
                  /\ users'[Uid].status = s]_vars

\* updateStatus has run with a timestamp before the status-start timestamp,
\* after time had been credited
C5_Witness ==
  /\ op.name = "updateStatus"
  /\ op.skewed
  /\ \E s \in Status : TotalOf(users[Uid], s) > 0

\* C6: a transition to a status different from the one the ledger has adds
\* elapsed = max(0, now - statusStartedAt) to the old status's lifetime total and
\* to its monthly total under the month of now, leaves the other statuses'
\* totals unchanged and sets the status and the status-start timestamp, for
\* updateStatus (ledger authState.user), handleStatusChange and
\* updateUserStatusSync (ledger the stored record).
C6_TransitionCredit ==
  [][\A s \in Status, now \in Times :
       /\ (StepUpdateStatus(s, now) /\ StatusDiffers(authUser, s))
            => TransitionEffect(authUser, authUser', s, now,
                                Elapsed(authUser, now), MonthKeyLocal(now))
       /\ (StepHandleStatusChange(s, now) /\ users[Uid].status # s)
            => TransitionEffect(users[Uid], users'[Uid], s, now,
                                Elapsed(users[Uid], now), MonthKeyLocal(now))
       /\ (StepUpdateUserStatusSync(s, now) /\ users[Uid].status # s)
            => TransitionEffect(users[Uid], users'[Uid], s, now,
                                Elapsed(users[Uid], now), MonthKeyLocal(now))]_vars

\* C7: requesting the status the ledger already has changes no lifetime or
\* monthly duration, for updateStatus, updateUserStatusSync,
\* RealtimeSync.updateUserStatus and handleStatusChange.
C7_NoOpIdempotent ==
  [][\A s \in Status, now \in Times :
       /\ (StepUpdateStatus(s, now) /\ authUser # Null /\ authUser.status = s)
            => /\ SameDurations(authUser, authUser')
               /\ SameDurations(users[Uid], users'[Uid])
       /\ ((\/ StepHandleStatusChange(s, now)
            \/ StepRealtimeUpdateUserStatus(s, now)
            \/ StepUpdateUserStatusSync(s, now)) /\ users[Uid].status = s)
            => SameDurations(users[Uid], users'[Uid])]_vars

\* C8 as stated: a request for the status the user already has still sets
\* lastActivity to now, and leaves status, status-start timestamp and durations
\* as they were.
C8_SameStatusRefreshesLastActivity ==
  [][\A s \in Status, now \in Times :
       /\ (StepUpdateStatus(s, now) /\ authUser # Null /\ authUser.status = s)
            => /\ users'[Uid].lastActivity = now
               /\ authUser'.lastActivity = now
               /\ authUser'.status = authUser.status
               /\ SameDurations(authUser, authUser')
       /\ (StepHandleStatusChange(s, now) /\ currentStatus = s)
            => /\ users'[Uid].lastActivity = now
               /\ users'[Uid].status = users[Uid].status
               /\ SameDurations(users[Uid], users'[Uid])]_vars

\* C8 amended: a request for the status the handler sees as current
\* (authState.user.status in updateStatus, the currentStatus prop in
\* handleStatusChange) returns before anything is written: the stored record,
\* the session copies and the activity log, lastActivity included, are unchanged.
C8_SameStatusChangesNothing ==
  [][\A s \in {op'.status}, now \in Times :
       ((\/ /\ By({"updateStatus"})
            /\ authUser # Null
            /\ authUser.status = s
            /\ StepUpdateStatus(s, now)
         \/ /\ By({"handleStatusChange"})
            /\ currentStatus = s
            /\ StepHandleStatusChange(s, now)))
       => UNCHANGED <<users, authUser, currentUser, currentStatus,
                      activityLen>>]_vars

\* updateStatus was asked for the status authState.user already had, on a
\* record that an earlier transition had written
C8_Witness ==
  /\ op.name = "updateStatus"
  /\ op.same
  /\ authUser # Null
  /\ activityLen >= 2

\* C9: every activity record appended by updateStatus or
\* RealtimeSync.updateUserStatus carries the previous status and a duration that
\* is max(0, now - statusStartedAt) of the ledger the handler read, never
\* negative, and equal to the growth of the old status's lifetime total.
C9_RecordMatchesCredit ==
  [][\A s \in Status, now \in Times :
       /\ (StepUpdateStatus(s, now) /\ StatusDiffers(authUser, s))
            => LET record == UpdateStatusRecord(authUser, s, now)
               IN /\ activityLen' = activityLen + 1
                  /\ "previousStatus" \in DOMAIN record
                  /\ record.previousStatus = authUser.status
                  /\ record.duration = Elapsed(authUser, now)
                  /\ record.duration =
                       TotalOf(authUser', authUser.status)
                         - TotalOf(authUser, authUser.status)
       /\ StepRealtimeUpdateUserStatus(s, now)
            => LET record == RealtimeRecord(users[Uid], s, now)
               IN /\ activityLen' = activityLen + 1
                  /\ "previousStatus" \in DOMAIN record
                  /\ record.previousStatus = users[Uid].status
                  /\ record.duration = Elapsed(users[Uid], now)
                  /\ record.duration =
                       TotalOf(users'[Uid], users[Uid].status)
                         - TotalOf(users[Uid], users[Uid].status)]_vars

\* the month in which the status period of the ledger began differs from the
\* month of now
CrossesMonth(user, now) ==
  HasTs(user) /\ MonthKeyLocal(user.lastStatusTimestamp) # MonthKeyLocal(now)

\* between L and L2 the monthly total of status s under key grew by d and no
\* other month of s changed
OnlyMonthGrew(L, L2, s, key, d) ==
  \A k \in MonthKeys :
    MonthlyAt(L2, s, k) = MonthlyAt(L, s, k) + (IF k = key THEN d ELSE 0)

C11_StartNotAfterNextTransition ==
  [][\A s \in Status, now \in Times :
       ((\/ StepUpdateStatus(s, now)
         \/ StepLogout(now)
         \/ StepHandleStatusChange(s, now)
         \/ StepRealtimeUpdateUserStatus(s, now)
         \/ StepUpdateUserStatusSync(s, now))
        /\ activityLen' > activityLen
        /\ HasTs(users[Uid]))
       => users[Uid].lastStatusTimestamp <= now]_vars

\* between L and L2 the status L had was credited d under month key, and no
\* other duration changed
CreditEffect(L, L2, d, key) ==
  /\ TotalOf(L2, L.status) = TotalOf(L, L.status) + d
  /\ OnlyMonthGrew(L, L2, L.status, key, d)
  /\ \A x \in Status \ {L.status} :
       /\ TotalOf(L2, x) = TotalOf(L, x)
       /\ OnlyMonthGrew(L, L2, x, key, 0)

\* the stored status or status-start timestamp of the user differs between
\* the two lists
LedgerMoved(us, us2) ==
  \/ us2[Uid].status # us[Uid].status
  \/ HasTs(us2[Uid]) # HasTs(us[Uid])
  \/ HasTs(us[Uid]) /\ us2[Uid].lastStatusTimestamp # us[Uid].lastStatusTimestamp

\* C12: every call of login, logout, storage.initialize, storage.blockUser,
\* storage.forceAllUsersOffline or the login that goes through
\* SyncManager.mergeUserSessions which changes the stored status or
\* status-start timestamp adds max(0, now - statusStartedAt) to the lifetime
\* and monthly totals of the status the store held, and changes no other
\* duration.
C12_EveryStatusChangeCredits ==
  [][\A now \in Times :
       ((\/ op'.name = "login" /\ Login(now)
         \/ op'.name = "logout" /\ Logout(now)
         \/ op'.name = "initialize" /\ PageLoad(now)
         \/ op'.name = "syncLogin" /\ SyncLogin(now)
         \/ op'.name = "syncLogout" /\ SyncLogout(now)
         \/ op'.name = "syncInitialize" /\ SyncPageLoad(now)
         \/ op'.name = "forceAllUsersOffline" /\ ForceAllUsersOffline(now)
         \/ op'.name = "blockUser" /\ BlockUser(now))
        /\ LedgerMoved(users, users'))
       => CreditEffect(users[Uid], users'[Uid], Elapsed(users[Uid], now),
                       MonthKeyLocal(now))]_vars

\* C13: the record a merge makes of two copies of a user has, for each of the
\* three statuses, a lifetime total equal to the larger of the two copies'
\* totals.
C13_MergedTotalIsMax ==
  mergeOut # NoLedger
    => \A s \in Status :
         TotalOf(mergeOut, s) = Max(TotalOf(mergeA, s), TotalOf(mergeB, s))

\* C14: the record a merge makes of two copies of a user has, for every status,
\* exactly the month keys present in either copy, each with the larger of the
\* two copies' values (a key present in one copy only keeps its value).
C14_MergedMonthIsMax ==
  mergeOut # NoLedger
    => \A s \in Status :
         LET a == Map(mergeA, MonthlyField(s))
             b == Map(mergeB, MonthlyField(s))
             out == Map(mergeOut, MonthlyField(s))
         IN /\ DOMAIN out = DOMAIN a \cup DOMAIN b
            /\ \A k \in DOMAIN out : out[k] = Max(Num(a, k), Num(b, k))

\* the fields of a record that make up its ledger
LedgerFields ==
  {"status", "lastStatusTimestamp"}
    \cup {TotalField(s) : s \in Status} \cup {MonthlyField(s) : s \in Status}

\* u and v agree on every field in fields
SameFields(u, v, fields) ==
  \A f \in fields :
    /\ f \in DOMAIN u <=> f \in DOMAIN v
    /\ f \in DOMAIN u => u[f] = v[f]

\* the record the named merge makes of a (stored, or from the database) and b
Merged(name, a, b) ==
  CASE name = "syncUserStatistics" -> syncUserStatistics(a, b)
    [] name = "syncMultiDeviceLogin" -> syncMultiDeviceLoginUser(a, b)
    [] name = "syncWithDatabase" -> syncWithDatabaseUser(a, b)

\* C15: merging the two copies in the other order gives the same ledger
\* (status, status-start timestamp, lifetime totals, monthly totals).
C15_MergeCommutes ==
  mergeOut # NoLedger
    => SameFields(mergeOut, Merged(op.name, mergeB, mergeA), LedgerFields)

C17_MergeIdempotent ==
  (mergeOut # NoLedger /\ mergeA = mergeB) => mergeOut = mergeA

\* C18: when the two copies differ in their status-start timestamps, the merged
\* status, status-start timestamp and last-activity timestamp are those of the
\* copy whose status-start timestamp is later, whichever argument it is.
C18_NewerCopyWinsStatus ==
  (mergeOut # NoLedger /\ mergeA.lastStatusTimestamp # mergeB.lastStatusTimestamp)
    => LET newer == IF mergeA.lastStatusTimestamp > mergeB.lastStatusTimestamp
                      THEN mergeA ELSE mergeB
       IN SameFields(mergeOut, newer,
                     {"status", "lastStatusTimestamp", "lastActivity"})

\* C19: the completed hours reported by the norm check are the whole hours
\* contained in the month's online milliseconds: floor(ms / 3,600,000).
C19_CompletedHoursIsFloor ==
  normOut # NoLedger
    => normOut.currentHours =
         Num(Map(normIn.user, "monthlyOnlineTime"), normIn.month) \div HourMs

\* C20: for a user whose monthly norm is 0 the norm check returns
\* requiredHours = 0, percentage = 100 and meetsNorm = true, whatever the
\* completed hours.
C20_ZeroNormIsMet ==
  (/\ normOut # NoLedger
   /\ "monthlyNorm" \in DOMAIN normIn.user
   /\ normIn.user.monthlyNorm = 0)
    => /\ normOut.requiredHours = 0
       /\ normOut.percentage.num = 100 * normOut.percentage.den
       /\ normOut.meetsNorm

\* C21: the norm check reports meetsNorm exactly when the completed hours reach
\* the required hours, never reports more than 100 percent, and reports
\* meetsNorm with exactly 100 percent when the two are equal.
C21_QuotaBoundary ==
  normOut # NoLedger
    => /\ normOut.meetsNorm <=> normOut.currentHours >= normOut.requiredHours
       /\ normOut.percentage.den > 0
       /\ normOut.percentage.num <= 100 * normOut.percentage.den
       /\ normOut.currentHours = normOut.requiredHours
            => /\ normOut.meetsNorm
               /\ normOut.percentage.num = 100 * normOut.percentage.den

\* the norm check has run for a user whose completed hours equal a required
\* norm of at least one hour
C21_Witness ==
  /\ normOut # NoLedger
  /\ normOut.currentHours = normOut.requiredHours
  /\ normOut.currentHours > 0

\* between L and L2 no monthly total grew under a key other than key
GrewOnlyUnder(L, L2, key) ==
  \A st \in Status, k \in MonthKeys :
    MonthlyAt(L2, st, k) > MonthlyAt(L, st, k) => k = key

\* C22: the month key under which a transition at now records its duration is
\* the key storage.checkMonthlyNorm and the heartbeat derive for the current
\* month at now (new Date().toISOString().slice(0, 7)), so the time recorded is
\* in the month a norm check made at now reads.
C22_MonthKeysAgree ==
  [][\A s \in Status, now \in Times :
       /\ (By({"updateStatus"}) /\ StatusDiffers(authUser, s)
             /\ StepUpdateStatus(s, now))
            => GrewOnlyUnder(authUser, users'[Uid], MonthKeyUTC(now))
       /\ (By({"logout"}) /\ authUser # Null /\ StepLogout(now))
            => GrewOnlyUnder(authUser, users'[Uid], MonthKeyUTC(now))
       /\ (By({"handleStatusChange"}) /\ StepHandleStatusChange(s, now))
            => GrewOnlyUnder(users[Uid], users'[Uid], MonthKeyUTC(now))
       /\ (By({"updateUserStatus"}) /\ StepRealtimeUpdateUserStatus(s, now))
            => GrewOnlyUnder(users[Uid], users'[Uid], MonthKeyUTC(now))
       /\ (By(SyncCallers) /\ StepUpdateUserStatusSync(s, now))
            => GrewOnlyUnder(users[Uid], users'[Uid], MonthKeyUTC(now))]_vars

\* the attempts a retrying caller makes before it gives up, as storage.addUser
\* does (saveAttempts = 3)
SaveAttempts == 3

\* C23: when the store refuses the write of a transition's ledger, the caller
\* retries (so a refusal that ends within SaveAttempts writes still gets the
\* transition stored), the session stays logged in, and the session's
\* in-memory ledger is the one it had or the one after the transition.
C23_SaveFailureRetried ==
  [][\A s \in Status, now \in Times :
       (/\ op'.name = "updateStatusThrew"
        /\ op'.status = s
        /\ UpdateStatusSaveFails(s, now))
         => /\ authUser' # Null
            /\ authUser' = authUser \/ authUser'.status = s
            /\ failing < SaveAttempts => users'[Uid].status = s]_vars

\* C24: a transition applied to a stored ledger that lacks the status-start
\* timestamp is refused: the handler signals the error before it writes, so the
\* stored list is as it was, and no duration of 0 is put in the timestamp's
\* place.
C24_MalformedLedgerRejected ==
  [][\A s \in Status, now \in Times :
       /\ (By({"handleStatusChange"}) /\ ~HasTs(users[Uid])
             /\ StepHandleStatusChange(s, now))
            => users' = users
       /\ (By({"updateUserStatus"}) /\ ~HasTs(users[Uid])
             /\ StepRealtimeUpdateUserStatus(s, now))
            => users' = users
       /\ (By(SyncCallers) /\ ~HasTs(users[Uid])
             /\ StepUpdateUserStatusSync(s, now))
            => users' = users]_vars

\* C25: while a session is logged in, authState.user and the user's entry in
\* the stored list have the same status, the same status-start timestamp and
\* the same lifetime and monthly totals.
C25_SessionMatchesStore ==
  authUser # Null
    => /\ authUser.status = users[Uid].status
       /\ HasTs(authUser) = HasTs(users[Uid])
       /\ HasTs(authUser)
            => authUser.lastStatusTimestamp = users[Uid].lastStatusTimestamp
       /\ SameDurations(authUser, users[Uid])

\* the stored ledger after AuthContext.updateStatus('offline') at now
AfterUpdateStatusOffline(now) ==
  IF StatusDiffers(authUser, "offline")
    THEN updateUser(users, Uid, UpdateStatusUpdates(authUser, "offline", now))[Uid]
    ELSE users[Uid]

\* C26: AuthContext.logout leaves the stored ledger with the status, the
\* status-start timestamp and the lifetime and monthly totals that
\* AuthContext.updateStatus('offline'), called at the same instant in the same
\* session, would leave, whatever the session's status was.
C26_LogoutIsTransitionToOffline ==
  [][\A now \in Times :
       (By({"logout"}) /\ authUser # Null /\ StepLogout(now))
         => SameFields(users'[Uid], AfterUpdateStatusOffline(now),
                       LedgerFields)]_vars

\* C27: when storage.performAutoSync has returned synced = true, the list
\* storage.getUsers() returns is the merged list storage.syncMultiDeviceLogin
\* computed; users_backup and users_temp, which it has removed by then, are
\* gone only with the merged list stored.
C27_AutoSyncStoresMergedList ==
  ("synced" \in DOMAIN mergeOut /\ mergeOut.synced)
    => /\ localStorage["users_backup"] = Absent
       /\ localStorage["users_temp"] = Absent
       /\ users = mergeOut.syncedUsers

\* C28: for a user who stays online (or afk) with no status change, once a
\* tick of performSync has come more than 30 seconds after the status began,
\* the stored total of that status has grown; and the stored totals together
\* never exceed the time that has passed, so no interval is credited twice.
C28_HeartbeatCredits ==
  /\ (/\ op.name = "performSync"
      /\ activityLen = 0
      /\ clock > ActivityThresholdMs)
       => TotalOf(users[Uid], users[Uid].status) > 0
  /\ TotalOf(users[Uid], "online") + TotalOf(users[Uid], "afk")
       + TotalOf(users[Uid], "offline") <= clock

\* C29: for every identifier, at most five attempts are allowed within any
\* 15 minutes since the identifier was last cleared, and when
\* storage.authenticateUser has returned the user, the counter of the login it
\* was called with, the one it checked on entry, is cleared.
C29_RateLimit ==
  /\ \A id \in DOMAIN attemptLog :
       \A i \in DOMAIN attemptLog[id] :
         Cardinality({j \in DOMAIN attemptLog[id] :
                        /\ j >= i
                        /\ attemptLog[id][j] - attemptLog[id][i] <= RateWindowMs})
           <= MaxLoginAttempts
  /\ (op.name = "authenticateUser" /\ op.returned)
       => Get(loginAttempts, op.login) = Absent

\* C30: a call of storage.useUnblockCode that returns true leaves its code in
\* no place of settings.unblockCodes, so that the code cannot succeed again,
\* and a call that returns false leaves settings.unblockCodes and the users
\* list as they were.
C30_UnblockCodeSingleUse ==
  [][\A code \in Codes \cup {UnknownCode}, userId \in {Uid, UnknownUser} :
       (/\ op'.name = "useUnblockCode"
        /\ op'.code = code
        /\ UseUnblockCode(code, userId))
         => IF op'.returned
              THEN code \notin Range(getSettings(localStorage').unblockCodes)
              ELSE /\ getSettings(localStorage').unblockCodes
                        = getSettings(localStorage).unblockCodes
                   /\ users' = users]_vars

====
